---- MODULE Spec2Model ----
(***************************************************************************)
(* Model of the client-side tabular view engine                            *)
(* (frontend/src/components/DataTable.tsx): the three-field view state     *)
(* (searchTerm, sortKey, sortDirection), the memoised filter-then-sort     *)
(* that yields the displayed rows, and the table body rendered from them.  *)
(*                                                                         *)
(* A page mounts two DataTable instances over the same data array whose    *)
(* column lists differ only in their render functions (table 1 renders     *)
(* stock the way pages/Reorder.tsx does, table 2 has no render function).  *)
(* A gesture is delivered to every table of the set it is addressed to;    *)
(* in Spec the user repeats every gesture on both tables.                  *)
(*                                                                         *)
(* Around the tables: the UI store of the shell (main.tsx), the chat panel *)
(* (ChatPanel.tsx), the upload card (DataUpload), the reorder message of   *)
(* the risk page (RiskAlerts.tsx) and the forecast query of the            *)
(* forecasting page. Each has a specification of its own, in which the     *)
(* other parts stay as mounted.                                            *)
(***************************************************************************)
EXTENDS Integers, Sequences, FiniteSets, TLC

VARIABLES
    data,           \* the data prop: the parent's array of records
    sortImpl,       \* which host implements Array.prototype.sort
    searchTerm,     \* per table: useState('')
    sortKey,        \* per table: useState(null)
    sortDirection,  \* per table: useState('asc')
    filteredData,   \* per table: the useMemo result, the displayed rows
    tbody,          \* per table: the rendered <tbody> rows
    lastEvent,      \* the gesture or prop change handled last
    lastTarget,     \* the tables the last gesture was made on
    columns,        \* per table: the columns prop
    searchable,     \* per table: the searchable prop
    sidebarOpen,    \* useUIStore: sidebarOpen
    chatOpen,       \* useUIStore: chatOpen
    \* DataUpload
    uploading,      \* useState(false)
    uploadResult,   \* useState(null)
    error,          \* useState(null)
    selectedFile,   \* useState(null)
    isDragActive,   \* useState(false)
    onErrorGiven,   \* whether the parent passes the onError prop
    onErrorArg,     \* the argument of the onError call of the last step
    uploadAttempts, \* the handleUpload calls that are waiting at an await
    resetTimers,    \* the pending setTimeout(..., 5000) callbacks, oldest first
    picked,         \* the number of File objects handed to the component so far
    offered,        \* the File object the last step handed to the component
    \* ChatPanel
    messages,       \* useState([])
    input,          \* useState('')
    isPending,      \* chatMutation.isPending
    chatRequests,   \* the chat requests without answer yet, oldest first
    clearRequests,  \* the clear-chat requests without answer yet
    \* RiskAlerts
    riskTypeFilter,     \* useState([])
    reorderedItems,     \* useState(new Set())
    showSuccessMessage, \* useState(null)
    hideTimers,         \* the pending setTimeout(..., 3000) callbacks, oldest first
    \* Forecasting
    selectedIngredient, \* useState('')
    forecastDays,       \* useState(30)
    method,             \* useState('moving_average')
    includeSeasonality, \* useState(true)
    includeHolidays,    \* useState(true)
    forecastFetch,      \* the fetch of the forecast query that is running
    forecastCache,      \* the query keys with fresh data in the query cache
    forecastRequest     \* the request to /api/forecast issued by the last step

uploadVars == <<uploading, uploadResult, error, selectedFile, isDragActive,
                onErrorGiven, onErrorArg, uploadAttempts, resetTimers, picked,
                offered>>

chatVars == <<messages, input, isPending, chatRequests, clearRequests>>

riskVars == <<riskTypeFilter, reorderedItems, showSuccessMessage, hideTimers>>

forecastVars == <<selectedIngredient, forecastDays, method, includeSeasonality,
                  includeHolidays, forecastFetch, forecastCache, forecastRequest>>

tableVars == <<data, sortImpl, searchTerm, sortKey, sortDirection, filteredData,
               tbody, lastTarget, columns, searchable>>

vars == <<data, sortImpl, searchTerm, sortKey, sortDirection, filteredData,
          tbody, lastEvent, lastTarget, columns, searchable, sidebarOpen, chatOpen,
          uploadVars, chatVars, riskVars, forecastVars>>

(***************************************************************************)
(* Bounds                                                                  *)
(***************************************************************************)
MaxRows == 3

Tables == {1, 2}

(***************************************************************************)
(* JavaScript values. Every value carries the same three fields so that    *)
(* values of different types can be compared for identity.                 *)
(***************************************************************************)
Num(n) == [t |-> "number", n |-> n, s |-> <<>>]
Str(s) == [t |-> "string", n |-> 0, s |-> s]
Null == [t |-> "null", n |-> 0, s |-> <<>>]
Undefined == [t |-> "undefined", n |-> 0, s |-> <<>>]
Bool(b) == [t |-> "boolean", n |-> IF b THEN 1 ELSE 0, s |-> <<>>]
\* a plain object; s is its content in structural (JSON) form
Obj(json) == [t |-> "object", n |-> 0, s |-> json]

\* UTF-16 code units of the characters that occur
CharCode ==
    " " :> 32 @@ "\"" :> 34 @@ ":" :> 58 @@ "[" :> 91 @@ "]" :> 93 @@
    "b" :> 98 @@ "j" :> 106 @@ "{" :> 123 @@ "}" :> 125 @@
    "-" :> 45 @@ "." :> 46 @@
    "0" :> 48 @@ "1" :> 49 @@ "2" :> 50 @@ "3" :> 51 @@ "4" :> 52 @@
    "5" :> 53 @@ "6" :> 54 @@ "7" :> 55 @@ "8" :> 56 @@ "9" :> 57 @@
    "C" :> 67 @@ "E" :> 69 @@ "K" :> 75 @@ "N" :> 78 @@ "O" :> 79 @@
    "S" :> 83 @@ "T" :> 84 @@ "V" :> 86 @@
    "a" :> 97 @@ "c" :> 99 @@ "d" :> 100 @@ "e" :> 101 @@ "f" :> 102 @@
    "g" :> 103 @@ "i" :> 105 @@ "k" :> 107 @@ "l" :> 108 @@ "n" :> 110 @@
    "h" :> 104 @@
    "o" :> 111 @@ "r" :> 114 @@ "s" :> 115 @@ "t" :> 116 @@ "u" :> 117 @@
    "v" :> 118 @@ "x" :> 120 @@ "y" :> 121

CharOf(code) == CHOOSE c \in DOMAIN CharCode : CharCode[c] = code

\* String.prototype.toLowerCase on one code unit: A-Z map to a-z
LowerChar ==
    [c \in DOMAIN CharCode |->
        IF CharCode[c] >= 65 /\ CharCode[c] <= 90 THEN CharOf(CharCode[c] + 32) ELSE c]

ToLowerCase(s) == [i \in 1..Len(s) |-> LowerChar[s[i]]]

DigitChar == <<"0", "1", "2", "3", "4", "5", "6", "7", "8", "9">>

RECURSIVE Digits(_)
Digits(n) ==
    IF n < 10 THEN <<DigitChar[n + 1]>>
    ELSE Digits(n \div 10) \o <<DigitChar[(n % 10) + 1]>>

\* String(value)
String(v) ==
    CASE v.t = "number" -> IF v.n < 0 THEN <<"-">> \o Digits(-v.n) ELSE Digits(v.n)
      [] v.t = "string" -> v.s
      [] v.t = "null" -> <<"n", "u", "l", "l">>
      [] v.t = "boolean" -> IF v.n = 1 THEN <<"t", "r", "u", "e">>
                            ELSE <<"f", "a", "l", "s", "e">>
      [] v.t = "object" ->
            <<"[", "o", "b", "j", "e", "c", "t", " ", "O", "b", "j", "e", "c", "t", "]">>
      [] OTHER -> <<"u", "n", "d", "e", "f", "i", "n", "e", "d">>

IsDigits(s) ==
    s # <<>> /\ \A i \in 1..Len(s) : CharCode[s[i]] >= 48 /\ CharCode[s[i]] <= 57

\* render: value => Number(value).toFixed(2), on the values of this model
ToFixed2(v) ==
    CASE v.t = "number" -> String(v) \o <<".", "0", "0">>
      [] v.t = "null" -> <<"0", ".", "0", "0">>
      [] v.t = "boolean" -> Digits(v.n) \o <<".", "0", "0">>
      [] v.t = "string" /\ IsDigits(v.s) -> v.s \o <<".", "0", "0">>
      [] OTHER -> <<"N", "a", "N">>

\* String.prototype.includes
Includes(s, sub) ==
    \E i \in 0..(Len(s) - Len(sub)) : SubSeq(s, i + 1, i + Len(sub)) = sub

\* a < b on strings: lexicographic on code units, a proper prefix is smaller
StrLess(a, b) ==
    \E i \in 1..(Len(b)) :
        /\ i <= Len(a) + 1
        /\ \A j \in 1..(i - 1) : a[j] = b[j]
        /\ \/ i = Len(a) + 1
           \/ CharCode[a[i]] < CharCode[b[i]]

(***************************************************************************)
(* Records. A record is a function from the field names it has to values;  *)
(* reading a field it does not have yields undefined.                      *)
(***************************************************************************)
Get(row, key) == IF key \in DOMAIN row THEN row[key] ELSE Undefined

ObjectValues(row) == {row[f] : f \in DOMAIN row}

IsNullish(v) == v.t = "null" \/ v.t = "undefined"

(***************************************************************************)
(* Filtering: DataTable.tsx lines 38-44                                    *)
(***************************************************************************)
\* variant: only the fields the columns name take part in the search
RowMatchesColumnFields(row, term) ==
    \E f \in (DOMAIN row) \cap {"ingredient", "stock", "actions"} :
        Includes(ToLowerCase(String(row[f])), ToLowerCase(term))

RowMatches(row, term) ==
    \E value \in ObjectValues(row) :
        Includes(ToLowerCase(String(value)), ToLowerCase(term))

RECURSIVE ArrayFilter(_, _)
ArrayFilter(arr, term) ==
    IF arr = <<>> THEN <<>>
    ELSE IF RowMatches(Head(arr), term)
         THEN <<Head(arr)>> \o ArrayFilter(Tail(arr), term)
         ELSE ArrayFilter(Tail(arr), term)

(***************************************************************************)
(* The sort comparator: DataTable.tsx lines 47-66                          *)
(***************************************************************************)
\* variant: the nullish tests follow the direction like the other branches
CompareFnNullsByDirection(a, b, key, dir) ==
    LET aVal == Get(a, key)
        bVal == Get(b, key)
        aStr == ToLowerCase(String(aVal))
        bStr == ToLowerCase(String(bVal))
    IN  IF IsNullish(aVal) THEN (IF dir = "asc" THEN 1 ELSE -1)
        ELSE IF IsNullish(bVal) THEN (IF dir = "asc" THEN -1 ELSE 1)
        ELSE IF aVal.t = "number" /\ bVal.t = "number"
             THEN IF dir = "asc" THEN aVal.n - bVal.n ELSE bVal.n - aVal.n
        ELSE IF dir = "asc"
             THEN IF StrLess(aStr, bStr) THEN -1
                  ELSE IF StrLess(bStr, aStr) THEN 1 ELSE 0
             ELSE IF StrLess(bStr, aStr) THEN -1
                  ELSE IF StrLess(aStr, bStr) THEN 1 ELSE 0

\* variant: no numeric branch, numbers are compared as strings too
CompareFnAllStrings(a, b, key, dir) ==
    LET aVal == Get(a, key)
        bVal == Get(b, key)
        aStr == ToLowerCase(String(aVal))
        bStr == ToLowerCase(String(bVal))
    IN  IF IsNullish(aVal) THEN 1
        ELSE IF IsNullish(bVal) THEN -1
        ELSE IF dir = "asc"
             THEN IF StrLess(aStr, bStr) THEN -1
                  ELSE IF StrLess(bStr, aStr) THEN 1 ELSE 0
             ELSE IF StrLess(bStr, aStr) THEN -1
                  ELSE IF StrLess(aStr, bStr) THEN 1 ELSE 0

\* variant: the string branch compares the string forms as they are
CompareFnCaseSensitive(a, b, key, dir) ==
    LET aVal == Get(a, key)
        bVal == Get(b, key)
        aStr == String(aVal)
        bStr == String(bVal)
    IN  IF IsNullish(aVal) THEN 1
        ELSE IF IsNullish(bVal) THEN -1
        ELSE IF aVal.t = "number" /\ bVal.t = "number"
             THEN IF dir = "asc" THEN aVal.n - bVal.n ELSE bVal.n - aVal.n
        ELSE IF dir = "asc"
             THEN IF StrLess(aStr, bStr) THEN -1
                  ELSE IF StrLess(bStr, aStr) THEN 1 ELSE 0
             ELSE IF StrLess(bStr, aStr) THEN -1
                  ELSE IF StrLess(aStr, bStr) THEN 1 ELSE 0

CompareFn(a, b, key, dir) ==
    LET aVal == Get(a, key)
        bVal == Get(b, key)
        aStr == ToLowerCase(String(aVal))
        bStr == ToLowerCase(String(bVal))
    IN  IF IsNullish(aVal) THEN 1
        ELSE IF IsNullish(bVal) THEN -1
        ELSE IF aVal.t = "number" /\ bVal.t = "number"
             THEN IF dir = "asc" THEN aVal.n - bVal.n ELSE bVal.n - aVal.n
        ELSE IF dir = "asc"
             THEN IF StrLess(aStr, bStr) THEN -1
                  ELSE IF StrLess(bStr, aStr) THEN 1 ELSE 0
             ELSE IF StrLess(bStr, aStr) THEN -1
                  ELSE IF StrLess(aStr, bStr) THEN 1 ELSE 0

(***************************************************************************)
(* Array.prototype.sort. The host sorts stably; the comparator above is    *)
(* not a consistent one (it answers 1 for two nullish values in both       *)
(* argument orders), and for such a comparator ECMAScript leaves the order *)
(* to the host. Hosts differ in the test that moves an element forward:    *)
(* V8 inserts item before swap when comparefn(item, swap) < 0,             *)
(* SpiderMonkey keeps moving item forward until comparefn(swap, item) <= 0.*)
(* Both are insertion sorts on arrays of this size.                        *)
(***************************************************************************)
SortImpls == {"V8", "SpiderMonkey"}

MovesBefore(item, swap, key, dir, impl) ==
    IF impl = "V8" THEN CompareFn(item, swap, key, dir) < 0
    ELSE ~(CompareFn(swap, item, key, dir) <= 0)

RECURSIVE InsertItem(_, _, _, _, _)
InsertItem(sorted, item, key, dir, impl) ==
    IF sorted = <<>> THEN <<item>>
    ELSE LET swap == sorted[Len(sorted)]
         IN  IF MovesBefore(item, swap, key, dir, impl)
             THEN Append(InsertItem(SubSeq(sorted, 1, Len(sorted) - 1),
                                    item, key, dir, impl), swap)
             ELSE Append(sorted, item)

RECURSIVE SortPrefix(_, _, _, _, _)
SortPrefix(arr, n, key, dir, impl) ==
    IF n = 0 THEN <<>>
    ELSE InsertItem(SortPrefix(arr, n - 1, key, dir, impl), arr[n], key, dir, impl)

ArraySort(arr, key, dir, impl) == SortPrefix(arr, Len(arr), key, dir, impl)

(***************************************************************************)
(* The useMemo body: DataTable.tsx lines 35-70. `input` is the array the   *)
(* data prop refers to as the computation leaves it, `result` the value    *)
(* returned. filter and the spread both build new arrays.                  *)
(***************************************************************************)
NoSortKey == "(null)"

\* variant: with no sort key the rows are sorted by the first column
UseMemoDefaultSort(d, cols, term, key, dir, impl) ==
    LET filtered == IF term # <<>> THEN ArrayFilter(d, term) ELSE d
        k == IF key # NoSortKey /\ key # "" THEN key ELSE cols[1].key
    IN  [input |-> d, result |-> ArraySort(filtered, k, dir, impl)]

\* variant: result.sort(...) without the spread, which sorts data itself when
\* no filter has built a new array
UseMemoInPlace(d, cols, term, key, dir, impl) ==
    LET filtered == IF term # <<>> THEN ArrayFilter(d, term) ELSE d
        sorted == ArraySort(filtered, key, dir, impl)
    IN  IF key # NoSortKey /\ key # ""
        THEN [input |-> IF term # <<>> THEN d ELSE sorted, result |-> sorted]
        ELSE [input |-> d, result |-> filtered]

\* variant: the render functions are applied first, filter and sort see their output
RenderedRecord(row, cols) ==
    [f \in DOMAIN row |->
        IF \E c \in 1..Len(cols) : cols[c].key = f /\ cols[c].render # "none"
        THEN Str(ToFixed2(row[f])) ELSE row[f]]

UseMemoOnRendered(d, cols, term, key, dir, impl) ==
    LET rendered == [i \in 1..Len(d) |-> RenderedRecord(d[i], cols)]
        filtered == IF term # <<>> THEN ArrayFilter(rendered, term) ELSE rendered
    IN  IF key # NoSortKey /\ key # ""
        THEN [input |-> d, result |-> ArraySort(filtered, key, dir, impl)]
        ELSE [input |-> d, result |-> filtered]

UseMemo(d, cols, term, key, dir, impl) ==
    LET filtered == IF term # <<>> THEN ArrayFilter(d, term) ELSE d
    IN  IF key # NoSortKey /\ key # ""
        THEN [input |-> d, result |-> ArraySort(filtered, key, dir, impl)]
        ELSE [input |-> d, result |-> filtered]

(***************************************************************************)
(* handleSort (lines 72-79) and the th onClick (line 115)                  *)
(***************************************************************************)
\* variant: a new sort key keeps the direction of the old one
HandleSortKeepsDirection(sk, sd, key) ==
    IF sk = key
    THEN [sortKey |-> sk, sortDirection |-> IF sd = "asc" THEN "desc" ELSE "asc"]
    ELSE [sortKey |-> key, sortDirection |-> sd]

HandleSort(sk, sd, key) ==
    IF sk = key
    THEN [sortKey |-> sk, sortDirection |-> IF sd = "asc" THEN "desc" ELSE "asc"]
    ELSE [sortKey |-> key, sortDirection |-> "asc"]

\* variant: onClick calls handleSort without looking at column.sortable
OnHeaderClickAlways(sk, sd, column) == HandleSort(sk, sd, column.key)

OnHeaderClick(sk, sd, column) ==
    IF column.sortable THEN HandleSort(sk, sd, column.key)
    ELSE [sortKey |-> sk, sortDirection |-> sd]

(***************************************************************************)
(* Column descriptors (lines 7-12) and the props the page passes. Table 1  *)
(* renders stock through Number(value).toFixed(2), as the current_stock    *)
(* column of pages/Reorder.tsx does; table 2 has the same columns without  *)
(* a render function. The actions column has a synthetic key and, like     *)
(* every column that leaves `sortable` out, is not sortable.               *)
(***************************************************************************)
Column(key, sortable, render) == [key |-> key, sortable |-> sortable, render |-> render]

Columns(t) ==
    << Column("ingredient", TRUE, "none"),
       Column("stock", TRUE, IF t = 1 THEN "toFixed" ELSE "none"),
       Column("actions", FALSE, "none") >>

\* the header cells: lines 108-122
TableHead(cols) == [c \in 1..Len(cols) |-> cols[c].key]

\* variant: the cell shows String(row[key]) without the ?? '' default
CellWithoutDefault(column, row) ==
    LET value == Get(row, column.key)
    IN  IF column.render # "none" THEN ToFixed2(value) ELSE String(value)

\* one <td>: lines 136-140
Cell(column, row) ==
    LET value == Get(row, column.key)
    IN  IF column.render # "none" THEN ToFixed2(value)
        ELSE IF IsNullish(value) THEN <<>> ELSE String(value)

\* variant: the placeholder cell does not span the columns
TableBodyNarrowPlaceholder(cols, rows) ==
    IF Len(rows) = 0
    THEN << [placeholder |-> TRUE, colSpan |-> 1, cells |-> <<>>] >>
    ELSE [i \in 1..Len(rows) |->
            [placeholder |-> FALSE, colSpan |-> 1,
             cells |-> [c \in 1..Len(cols) |-> Cell(cols[c], rows[i])]]]

\* the <tbody>: lines 125-145
TableBody(cols, rows) ==
    IF Len(rows) = 0
    THEN << [placeholder |-> TRUE, colSpan |-> Len(cols), cells |-> <<>>] >>
    ELSE [i \in 1..Len(rows) |->
            [placeholder |-> FALSE, colSpan |-> 1,
             cells |-> [c \in 1..Len(cols) |-> Cell(cols[c], rows[i])]]]

(***************************************************************************)
(* The data the page can pass: up to MaxRows records. Record i names       *)
(* ingredient i; its stock is a number, a string, null or left out; the    *)
(* second record also has an origin field that no column names.            *)
(***************************************************************************)
Names ==
    << <<"T", "o", "f", "u">>, <<"r", "i", "c", "e">>, <<"S", "o", "y">>,
       <<"O", "a", "t">>, <<"E", "g", "g">> >>

Absent == [t |-> "absent", n |-> 0, s |-> <<>>]

StockChoices == {Num(5), Num(12), Str(<<"1", "a">>), Null, Absent}

Record(i, stock) ==
    ("ingredient" :> Str(Names[i]))
    @@ (IF stock = Absent THEN <<>> ELSE ("stock" :> stock))
    @@ (IF i = 2 THEN ("origin" :> Str(<<"K", "y", "o", "t", "o">>)) ELSE <<>>)

DataSets ==
    UNION { { [i \in 1..n |-> Record(i, f[i])] : f \in [1..n -> StockChoices] }
            : n \in 0..MaxRows }

\* what the user can type into the search box
Terms == { <<>>, <<"T", "O">>, <<"1">>, <<"l">> }

(***************************************************************************)
(* Records that also hold a boolean or a nested object under stock, for    *)
(* the pages whose props change: the stocks of one array are MaxRows       *)
(* consecutive entries of StockPattern.                                    *)
(***************************************************************************)
NestedUnit ==
    Obj(<<"{", "\"", "u", "n", "i", "t", "\"", ":", "\"", "t", "o", "n", "\"", "}">>)

StockPattern ==
    << Num(12), Null, Str(<<"1", "a">>), Bool(TRUE), Num(5), Absent, NestedUnit >>

PageData ==
    { <<>> } \cup
    { [i \in 1..MaxRows |-> Record(i, StockPattern[((i + k) % Len(StockPattern)) + 1])]
        : k \in 0..(Len(StockPattern) - 1) }

\* the column lists a page can pass: the usual ones, the same with a sortable
\* price column whose key no record has, and none at all
ColumnSets(t) ==
    << Columns(t), Columns(t) \o << Column("price", TRUE, "none") >>, <<>> >>

(***************************************************************************)
(* View state across renders (lines 31-33): each table instance has its    *)
(* own three useState cells; the initial value is used on mount only, so a *)
(* render with new props returns the state as it is.                       *)
(***************************************************************************)
InitialView == [searchTerm |-> <<>>, sortKey |-> NoSortKey, sortDirection |-> "asc"]

View(t) ==
    [searchTerm |-> searchTerm[t], sortKey |-> sortKey[t],
     sortDirection |-> sortDirection[t]]

\* variant: a change of props mounts the table anew
UseStateRemounted(view) == InitialView

UseState(view) == view

\* variant: the three cells are shared by the tables of the page
ReceivesShared(t, ts) == ts # {}

\* a gesture made on the tables of ts sets the state of table t
Receives(t, ts) == t \in ts

(***************************************************************************)
(* useMemo(..., [data, searchTerm, sortKey, sortDirection]) (line 70): the *)
(* body runs again when one of the dependencies differs from the last      *)
(* render's, otherwise the last result is returned.                        *)
(***************************************************************************)
\* variant: data is left out of the dependency list
DepsChangedWithoutData(t, d, st, sk, sd) ==
    <<st[t], sk[t], sd[t]>> # <<searchTerm[t], sortKey[t], sortDirection[t]>>

DepsChanged(t, d, st, sk, sd) ==
    <<d, st[t], sk[t], sd[t]>> # <<data, searchTerm[t], sortKey[t], sortDirection[t]>>

Memoized(t, d, cols, st, sk, sd) ==
    IF DepsChanged(t, d, st, sk, sd)
    THEN UseMemo(d, cols[t], st[t], sk[t], sd[t], sortImpl)
    ELSE [input |-> d, result |-> filteredData[t]]

(***************************************************************************)
(* A render pass of both tables after a state or prop change: each table's *)
(* memo runs on the array the data prop refers to, then its body is        *)
(* rendered.                                                               *)
(***************************************************************************)
Rerender(d, cols, st, sk, sd) ==
    \E m1 \in {Memoized(1, d, cols, st, sk, sd)} :
    \E m2 \in {Memoized(2, m1.input, cols, st, sk, sd)} :
        /\ data' = m2.input
        /\ filteredData' = (1 :> m1.result) @@ (2 :> m2.result)
        /\ tbody' = (1 :> TableBody(cols[1], m1.result))
                    @@ (2 :> TableBody(cols[2], m2.result))

(***************************************************************************)
(* useUIStore (main.tsx lines 90-97)                                       *)
(***************************************************************************)
UIState == [sidebarOpen |-> sidebarOpen, chatOpen |-> chatOpen]

StoreInitial == [sidebarOpen |-> TRUE, chatOpen |-> FALSE]

StoreSetSidebarOpen(s, open) == [s EXCEPT !.sidebarOpen = open]

StoreSetChatOpen(s, open) == [s EXCEPT !.chatOpen = open]

StoreToggleSidebar(s) == [s EXCEPT !.sidebarOpen = ~s.sidebarOpen]

\* variant: the chat button only ever opens the panel
StoreToggleChatOpens(s) == [s EXCEPT !.chatOpen = TRUE]

StoreToggleChat(s) == [s EXCEPT !.chatOpen = ~s.chatOpen]

(***************************************************************************)
(* Mounting                                                                *)
(***************************************************************************)
Mount(d, cols, srch) ==
    /\ data = d
    /\ columns = cols
    /\ searchable = srch
    /\ sortImpl \in SortImpls
    /\ searchTerm = [t \in Tables |-> InitialView.searchTerm]
    /\ sortKey = [t \in Tables |-> InitialView.sortKey]
    /\ sortDirection = [t \in Tables |-> InitialView.sortDirection]
    /\ filteredData = [t \in Tables |->
          UseMemo(d, cols[t], <<>>, NoSortKey, "asc", sortImpl).result]
    /\ tbody = [t \in Tables |-> TableBody(cols[t], filteredData[t])]
    /\ lastEvent = [kind |-> "mount", col |-> 0]
    /\ lastTarget = {}
    /\ sidebarOpen = StoreInitial.sidebarOpen
    /\ chatOpen = StoreInitial.chatOpen

(***************************************************************************)
(* The other components as they are mounted                                *)
(***************************************************************************)
\* JavaScript null where a file, an upload result, a string or a request is
\* expected
NoFile == [name |-> <<>>, size |-> 0, id |-> 0]

NoResult == [file |-> NoFile]

NoString == "(null)"

NoRequest ==
    [ingredient |-> "", days_ahead |-> 0, method |-> "",
     include_seasonality |-> FALSE, include_holidays |-> FALSE]

NoFetch == [key |-> NoRequest, failureCount |-> 0]

\* DataUpload, lines 14-18; given: whether the parent passes onError
UploadMount(given) ==
    /\ uploading = FALSE
    /\ uploadResult = NoResult
    /\ error = NoString
    /\ selectedFile = NoFile
    /\ isDragActive = FALSE
    /\ onErrorGiven = given
    /\ onErrorArg = NoString
    /\ uploadAttempts = {}
    /\ resetTimers = <<>>
    /\ picked = 0
    /\ offered = NoFile

\* ChatPanel.tsx, lines 20-21 and 32-56
ChatMount ==
    /\ messages = <<>>
    /\ input = <<>>
    /\ isPending = FALSE
    /\ chatRequests = <<>>
    /\ clearRequests = 0

\* RiskAlerts.tsx, lines 14-16
RiskMount ==
    /\ riskTypeFilter = <<>>
    /\ reorderedItems = {}
    /\ showSuccessMessage = NoString
    /\ hideTimers = <<>>

\* Forecasting, lines 196-200 and 210-219
ForecastMount ==
    /\ selectedIngredient = ""
    /\ forecastDays = 30
    /\ method = "moving_average"
    /\ includeSeasonality = TRUE
    /\ includeHolidays = TRUE
    /\ forecastFetch = NoFetch
    /\ forecastCache = {}
    /\ forecastRequest = NoRequest

\* DataManagement.tsx line 80 passes no onError
PagesMount == UploadMount(FALSE) /\ ChatMount /\ RiskMount /\ ForecastMount

Init ==
    /\ \E d \in DataSets :
          Mount(d, [t \in Tables |-> Columns(t)], [t \in Tables |-> TRUE])
    /\ PagesMount

(***************************************************************************)
(* Gestures on tables                                                      *)
(***************************************************************************)
\* the search input's onChange (line 99) on the tables of ts; the input is
\* there only when searchable (line 94)
SetSearchTerm(ts, term) ==
    /\ \A t \in ts : searchable[t]
    /\ searchTerm' = [t \in Tables |-> IF Receives(t, ts) THEN term ELSE searchTerm[t]]
    /\ UNCHANGED <<sortKey, sortDirection, sortImpl, columns, searchable,
                   sidebarOpen, chatOpen>>
    /\ UNCHANGED <<uploadVars, chatVars, riskVars, forecastVars>>
    /\ Rerender(data, columns, searchTerm', sortKey', sortDirection')
    /\ lastEvent' = [kind |-> "search", col |-> 0]
    /\ lastTarget' = ts

\* a click on the header of column c (line 115) on the tables of ts
HeaderClick(ts, c) ==
    LET after == [t \in Tables |->
                    IF Receives(t, ts)
                    THEN OnHeaderClick(sortKey[t], sortDirection[t], columns[t][c])
                    ELSE [sortKey |-> sortKey[t], sortDirection |-> sortDirection[t]]]
    IN  /\ \A t \in ts : c \in 1..Len(columns[t])
        /\ sortKey' = [t \in Tables |-> after[t].sortKey]
        /\ sortDirection' = [t \in Tables |-> after[t].sortDirection]
        /\ UNCHANGED <<searchTerm, sortImpl, columns, searchable, sidebarOpen, chatOpen>>
        /\ UNCHANGED <<uploadVars, chatVars, riskVars, forecastVars>>
        /\ Rerender(data, columns, searchTerm', sortKey', sortDirection')
        /\ lastEvent' = [kind |-> "click", col |-> c]
        /\ lastTarget' = ts

TypeSearch == \E term \in Terms : SetSearchTerm(Tables, term)

ClickHeader == \E c \in 1..Len(columns[1]) : HeaderClick(Tables, c)

Next == TypeSearch \/ ClickHeader

Spec == Init /\ [][Next]_vars

(***************************************************************************)
(* The parent renders the tables with new props: every table keeps its     *)
(* state and renders again.                                                *)
(***************************************************************************)
NewProps(kind, d, cols, srch) ==
    LET kept == [t \in Tables |-> UseState(View(t))]
    IN  /\ columns' = cols
        /\ searchable' = srch
        /\ searchTerm' = [t \in Tables |-> kept[t].searchTerm]
        /\ sortKey' = [t \in Tables |-> kept[t].sortKey]
        /\ sortDirection' = [t \in Tables |-> kept[t].sortDirection]
        /\ UNCHANGED <<sortImpl, sidebarOpen, chatOpen>>
        /\ UNCHANGED <<uploadVars, chatVars, riskVars, forecastVars>>
        /\ Rerender(d, cols, searchTerm', sortKey', sortDirection')
        /\ lastEvent' = [kind |-> kind, col |-> 0]
        /\ lastTarget' = {}

ChangeData == \E d \in PageData : NewProps("data", d, columns, searchable)

ChangeColumns ==
    \E k \in 1..Len(ColumnSets(1)) :
        NewProps("columns", data, [t \in Tables |-> ColumnSets(t)[k]], searchable)

ChangeSearchable ==
    \E b \in BOOLEAN : NewProps("searchable", data, columns, [t \in Tables |-> b])

PropsInit ==
    /\ \E d \in PageData : \E k \in 1..Len(ColumnSets(1)) : \E b \in BOOLEAN :
          Mount(d, [t \in Tables |-> ColumnSets(t)[k]], [t \in Tables |-> b])
    /\ PagesMount

PropsNext == TypeSearch \/ ClickHeader \/ ChangeData \/ ChangeColumns \/ ChangeSearchable

PropsSpec == PropsInit /\ [][PropsNext]_vars

(***************************************************************************)
(* The application shell (Header, Sidebar, ChatPanel) around a page with   *)
(* the two tables: gestures on either table and on the shell's buttons, in *)
(* any order.                                                              *)
(***************************************************************************)
StoreAction(kind, s) ==
    /\ sidebarOpen' = s.sidebarOpen
    /\ chatOpen' = s.chatOpen
    /\ lastEvent' = [kind |-> kind, col |-> 0]
    /\ lastTarget' = {}
    /\ UNCHANGED <<data, sortImpl, searchTerm, sortKey, sortDirection, filteredData,
                   tbody, columns, searchable>>
    /\ UNCHANGED <<uploadVars, chatVars, riskVars, forecastVars>>

\* Header.tsx line 21
ToggleSidebar == StoreAction("toggleSidebar", StoreToggleSidebar(UIState))

\* Header.tsx line 75
ToggleChat == StoreAction("toggleChat", StoreToggleChat(UIState))

\* Sidebar: the backdrop and the links call setSidebarOpen(false)
CloseSidebar == StoreAction("setSidebarOpen", StoreSetSidebarOpen(UIState, FALSE))

\* ChatPanel.tsx line 98
CloseChat == StoreAction("setChatOpen", StoreSetChatOpen(UIState, FALSE))

AppTerms == { <<>>, <<"T", "O">> }

TypeSearchOn == \E t \in Tables : \E term \in AppTerms : SetSearchTerm({t}, term)

ClickHeaderOn == \E t \in Tables : \E c \in 1..Len(columns[t]) : HeaderClick({t}, c)

AppInit ==
    /\ \E d \in PageData :
          Mount(d, [t \in Tables |-> Columns(t)], [t \in Tables |-> TRUE])
    /\ PagesMount

AppNext ==
    \/ TypeSearchOn \/ ClickHeaderOn
    \/ ToggleSidebar \/ ToggleChat \/ CloseSidebar \/ CloseChat

AppSpec == AppInit /\ [][AppNext]_vars

(***************************************************************************)
(* Vocabulary of the properties                                            *)
(***************************************************************************)
Shown(t, row) == \E j \in 1..Len(filteredData[t]) : filteredData[t][j] = row

\* the field values of row, as lowercased strings
LoweredFields(row) == {ToLowerCase(String(row[f])) : f \in DOMAIN row}

\* the values the displayed rows of t hold under its sort key, nullish ones left out
IsDefined(v) == ~IsNullish(v)
KeyValues(t) ==
    SelectSeq([j \in 1..Len(filteredData[t]) |-> Get(filteredData[t][j], sortKey[t])],
              IsDefined)

Sorting(t) == sortKey[t] # NoSortKey

StrLeq(a, b) == a = b \/ StrLess(a, b)

(***************************************************************************)
(* C1. With a non-empty search term, a record of data is displayed if and  *)
(* only if one of its field values (of any field it has, named by a column *)
(* or not), as a lowercased string, contains the lowercased term; and      *)
(* nothing but records of data is displayed.                               *)
(***************************************************************************)
C1_FilterIff ==
    \A t \in Tables :
        searchTerm[t] # <<>> =>
            /\ \A i \in 1..Len(data) :
                 Shown(t, data[i]) <=>
                    \E str \in LoweredFields(data[i]) :
                        Includes(str, ToLowerCase(searchTerm[t]))
            /\ \A j \in 1..Len(filteredData[t]) :
                 \E i \in 1..Len(data) : data[i] = filteredData[t][j]

\* the term TO keeps Tofu by its name, rice only by its origin Kyoto, and drops Soy
C1_Witness ==
    /\ Len(data) = 3
    /\ searchTerm[1] = <<"T", "O">>
    /\ Shown(1, data[1]) /\ Shown(1, data[2]) /\ ~Shown(1, data[3])
    /\ lastEvent.kind = "search"

(***************************************************************************)
(* C2. Under an active sort key, in both directions, every displayed       *)
(* record with a defined non-null value under the key comes before every   *)
(* displayed record whose value is null, undefined or missing.             *)
(***************************************************************************)
C2_NullsLast ==
    \A t \in Tables :
        Sorting(t) =>
            \A i, j \in 1..Len(filteredData[t]) :
                ( /\ IsDefined(Get(filteredData[t][i], sortKey[t]))
                  /\ IsNullish(Get(filteredData[t][j], sortKey[t])) ) => i < j

\* descending by stock: data began with a null and a missing stock, a number came last
C2_Witness ==
    /\ Len(data) = 3
    /\ sortKey[1] = "stock" /\ sortDirection[1] = "desc"
    /\ Get(data[1], "stock") = Null
    /\ "stock" \notin DOMAIN data[2]
    /\ Get(data[3], "stock") = Num(5)
    /\ filteredData[1][1] = data[3]

(***************************************************************************)
(* C3. A click on the header of a sortable column with key k: if k is the  *)
(* active sort key it stays and the direction flips, otherwise k becomes   *)
(* the sort key and the direction becomes ascending.                       *)
(***************************************************************************)
C3_HeaderClick ==
    [][ \A t \in Tables : \A c \in 1..Len(Columns(t)) :
          ( /\ lastEvent'.kind = "click" /\ lastEvent'.col = c
            /\ Columns(t)[c].sortable )
          => /\ sortKey'[t] = Columns(t)[c].key
             /\ sortDirection'[t] =
                  IF sortKey[t] = Columns(t)[c].key
                  THEN (IF sortDirection[t] = "asc" THEN "desc" ELSE "asc")
                  ELSE "asc" ]_vars

\* a second click on the stock header has flipped the direction
C3_Witness ==
    /\ lastEvent = [kind |-> "click", col |-> 2]
    /\ sortKey[1] = "stock" /\ sortDirection[1] = "desc"

(***************************************************************************)
(* C4. Sorting by a key whose non-null values are all numbers: ascending   *)
(* gives a non-decreasing sequence of the non-null values, descending a    *)
(* non-increasing one.                                                     *)
(***************************************************************************)
C4_NumericOrder ==
    \A t \in Tables :
        ( /\ Sorting(t)
          /\ \A i \in 1..Len(KeyValues(t)) : KeyValues(t)[i].t = "number" )
        => \A i \in 1..(Len(KeyValues(t)) - 1) :
              IF sortDirection[t] = "asc"
              THEN KeyValues(t)[i].n <= KeyValues(t)[i + 1].n
              ELSE KeyValues(t)[i].n >= KeyValues(t)[i + 1].n

\* descending by stock over the stocks 5, null, 12: the displayed order is 12, 5, null
C4_Witness ==
    /\ Len(data) = 3
    /\ Get(data[1], "stock") = Num(5)
    /\ Get(data[2], "stock") = Null
    /\ Get(data[3], "stock") = Num(12)
    /\ sortKey[1] = "stock" /\ sortDirection[1] = "desc"
    /\ filteredData[1] = <<data[3], data[1], data[2]>>

(***************************************************************************)
(* C5. Sorting ascending by a key whose non-null values are strings or a   *)
(* mix of types (numbers and strings in one column): the non-null values,  *)
(* as lowercased strings, form a lexicographically non-decreasing sequence.*)
(***************************************************************************)
C5_StringOrder ==
    \A t \in Tables :
        ( /\ Sorting(t) /\ sortDirection[t] = "asc"
          /\ \E i \in 1..Len(KeyValues(t)) : KeyValues(t)[i].t # "number" )
        => \A i \in 1..(Len(KeyValues(t)) - 1) :
              StrLeq(ToLowerCase(String(KeyValues(t)[i])),
                     ToLowerCase(String(KeyValues(t)[i + 1])))

(***************************************************************************)
(* C6. Sorting ascending by k what is already sorted ascending by k gives  *)
(* the identical sequence of records.                                      *)
(***************************************************************************)
C6_SortIdempotent ==
    \A t \in Tables :
        (Sorting(t) /\ sortDirection[t] = "asc" /\ searchTerm[t] = <<>>)
        => ArraySort(filteredData[t], sortKey[t], "asc", sortImpl) = filteredData[t]

(***************************************************************************)
(* C7. With an empty search term every record of data is displayed and     *)
(* nothing else; with no sort key either, the displayed rows are data, in  *)
(* the same order.                                                         *)
(***************************************************************************)
C7_EmptyTerm ==
    \A t \in Tables :
        searchTerm[t] = <<>> =>
            /\ Len(filteredData[t]) = Len(data)
            /\ \A i \in 1..Len(data) : Shown(t, data[i])
            /\ ~Sorting(t) => filteredData[t] = data

\* the search box has been emptied again on a table of three records that is not sorted
C7_Witness ==
    /\ lastEvent.kind = "search"
    /\ searchTerm[1] = <<>> /\ ~Sorting(1)
    /\ Len(data) = 3 /\ filteredData[1] = data

(***************************************************************************)
(* C8. No search edit and no header click changes the array the data prop  *)
(* refers to.                                                              *)
(***************************************************************************)
C8_DataUntouched == [][data' = data]_vars

\* a sort has put the displayed rows in another order than data
C8_Witness ==
    /\ Sorting(1) /\ searchTerm[1] = <<>>
    /\ Len(data) = 3 /\ filteredData[1] # data

(***************************************************************************)
(* C9. Two tables with the same data and the same view state whose columns *)
(* differ only in render functions display the same records in the same    *)
(* order, and the rendered body holds, row for row, the cells of the       *)
(* displayed records: render is applied to them alone, in sorted order.    *)
(***************************************************************************)
C9_RenderIndependent ==
    \A t, u \in Tables :
        ( /\ searchTerm[t] = searchTerm[u] /\ sortKey[t] = sortKey[u]
          /\ sortDirection[t] = sortDirection[u] )
        => /\ filteredData[t] = filteredData[u]
           /\ IF filteredData[t] = <<>>
              THEN Len(tbody[t]) = 1 /\ tbody[t][1].cells = <<>>
              ELSE /\ Len(tbody[t]) = Len(filteredData[t])
                   /\ \A i \in 1..Len(tbody[t]) : \A c \in 1..Len(Columns(t)) :
                        tbody[t][i].cells[c] = Cell(Columns(t)[c], filteredData[t][i])

\* sorted by stock, where the rendered strings 12.00 and 5.00 order the other way
C9_Witness ==
    /\ Len(data) = 3
    /\ Get(data[1], "stock") = Num(12) /\ Get(data[2], "stock") = Num(5)
    /\ sortKey[1] = "stock" /\ sortDirection[1] = "asc" /\ searchTerm[1] = <<"1">>
    /\ Columns(1)[2].render # Columns(2)[2].render
    /\ tbody[1][1].cells[2] = <<"1", "2", ".", "0", "0">>
    /\ tbody[2][1].cells[2] = <<"1", "2">>

(***************************************************************************)
(* C10. A click on the header of a column not marked sortable changes      *)
(* neither searchTerm, sortKey, sortDirection nor the displayed rows.      *)
(***************************************************************************)
C10_UnsortableClick ==
    [][ ( /\ lastEvent'.kind = "click"
          /\ \A t \in Tables : ~Columns(t)[lastEvent'.col].sortable )
        => UNCHANGED <<searchTerm, sortKey, sortDirection, filteredData>> ]_vars

\* the actions header was clicked while the table was filtered and sorted descending
C10_Witness ==
    /\ lastEvent = [kind |-> "click", col |-> 3]
    /\ sortKey[1] = "stock" /\ sortDirection[1] = "desc"
    /\ searchTerm[1] # <<>>


(***************************************************************************)
(* Vocabulary of the properties on props and on the shell                  *)
(***************************************************************************)
Rows(seq) == {seq[j] : j \in 1..Len(seq)}

\* key is a field of no record of the data
OnNoRecord(key) == \A i \in 1..Len(data) : key \notin DOMAIN data[i]

\* the sign of comparing the lowercased string forms of two values
LoweredOrder(aVal, bVal) ==
    LET aStr == ToLowerCase(String(aVal))
        bStr == ToLowerCase(String(bVal))
    IN  IF StrLess(aStr, bStr) THEN -1 ELSE IF StrLess(bStr, aStr) THEN 1 ELSE 0

(***************************************************************************)
(* C11: every table starts with an empty search term, no sort key and      *)
(* direction ascending; a step changes a table's search term only when it  *)
(* is typing in the search box, its sort key or direction only when it is  *)
(* a click on a sortable header, and a step that changes the data or the   *)
(* columns props changes none of the three.                                *)
(***************************************************************************)
C11_ViewLifecycle ==
    /\ \A t \in Tables : View(t) = InitialView
    /\ [][\A t \in Tables :
            /\ searchTerm'[t] # searchTerm[t] => lastEvent'.kind = "search"
            /\ (sortKey'[t] # sortKey[t] \/ sortDirection'[t] # sortDirection[t])
                 => /\ lastEvent'.kind = "click"
                    /\ lastEvent'.col \in 1..Len(columns[t])
                    /\ columns[t][lastEvent'.col].sortable
            /\ (data' # data \/ columns' # columns) => View(t)' = View(t)]_vars

\* a table that was searched and sorted has just received new data
C11_Witness ==
    /\ lastEvent.kind = "data"
    /\ searchTerm[1] # <<>>
    /\ sortKey[1] = "stock"
    /\ sortDirection[1] = "desc"

(***************************************************************************)
(* C12: with two tables on a page, a step changes the search term, the     *)
(* sort key, the sort direction or the displayed rows of a table only when *)
(* it is a gesture on that table, whatever the order of the gestures.      *)
(***************************************************************************)
C12_Independent ==
    [][\A t \in Tables :
          (View(t)' # View(t) \/ filteredData'[t] # filteredData[t])
              => t \in lastTarget']_vars

\* the second table is filtered, then the first is sorted: they differ
C12_Witness ==
    /\ lastTarget = {1}
    /\ lastEvent.kind = "click"
    /\ sortKey[1] = "stock" /\ sortKey[2] = NoSortKey
    /\ searchTerm[2] # <<>> /\ searchTerm[1] = <<>>
    /\ Len(filteredData[2]) < Len(filteredData[1])

(***************************************************************************)
(* C13: when no record is left to display, the body of the table is        *)
(* exactly one placeholder row whose cell spans as many columns as the     *)
(* column list has; when a record is left, the body has one row per        *)
(* displayed record, in their order, and no placeholder row.               *)
(***************************************************************************)
C13_EmptyState ==
    \A t \in Tables :
        IF Len(filteredData[t]) = 0
        THEN /\ Len(tbody[t]) = 1
             /\ tbody[t][1].placeholder
             /\ tbody[t][1].colSpan = Len(columns[t])
        ELSE /\ Len(tbody[t]) = Len(filteredData[t])
             /\ \A j \in 1..Len(tbody[t]) :
                   /\ ~tbody[t][j].placeholder
                   /\ tbody[t][j].cells =
                        [c \in 1..Len(columns[t]) |-> Cell(columns[t][c], filteredData[t][j])]

\* a search that no record of a non-empty data set matches, four columns
C13_Witness ==
    /\ lastEvent.kind = "search"
    /\ Len(data) > 0
    /\ Len(filteredData[1]) = 0
    /\ Len(columns[1]) = 4
    /\ tbody[1] = << [placeholder |-> TRUE, colSpan |-> 4, cells |-> <<>>] >>

(***************************************************************************)
(* C14: with a column list of length zero the rendered table has no header *)
(* cells and no body rows, whatever the data.                              *)
(***************************************************************************)
C14_NoColumns ==
    \A t \in Tables :
        Len(columns[t]) = 0
            => Len(TableHead(columns[t])) = 0 /\ Len(tbody[t]) = 0

(***************************************************************************)
(* C15: in a column without render function whose key is a field of no     *)
(* record, every cell shows the empty string; and a click that makes such  *)
(* a key the sort key leaves the set of displayed records as it was.       *)
(***************************************************************************)
C15_AbsentKey ==
    /\ [](\A t \in Tables : \A c \in 1..Len(columns[t]) :
            (columns[t][c].render = "none" /\ OnNoRecord(columns[t][c].key))
                => \A j \in 1..Len(tbody[t]) :
                      ~tbody[t][j].placeholder => tbody[t][j].cells[c] = <<>>)
    /\ [][\A t \in Tables :
            (lastEvent'.kind = "click" /\ sortKey'[t] # sortKey[t] /\ OnNoRecord(sortKey'[t]))
                => /\ Rows(filteredData'[t]) = Rows(filteredData[t])
                   /\ Len(filteredData'[t]) = Len(filteredData[t])]_vars

\* the price header was clicked on a table that shows all its records
C15_Witness ==
    /\ lastEvent = [kind |-> "click", col |-> 4]
    /\ sortKey[1] = "price"
    /\ OnNoRecord("price")
    /\ Len(filteredData[1]) = MaxRows
    /\ \A j \in 1..MaxRows : tbody[1][j].cells[4] = <<>>

(***************************************************************************)
(* C16: for two records whose values under a key are both neither null    *)
(* nor undefined and not both numbers, the comparator answers with the     *)
(* order of the lowercased string forms of the two values (reversed when   *)
(* descending); it answers for every such pair.                            *)
(***************************************************************************)
C16_MixedCompare ==
    \A i, j \in 1..Len(data) : \A key \in {"ingredient", "stock"} :
        LET aVal == Get(data[i], key)
            bVal == Get(data[j], key)
        IN  (IsDefined(aVal) /\ IsDefined(bVal)
               /\ ~(aVal.t = "number" /\ bVal.t = "number"))
              => /\ CompareFn(data[i], data[j], key, "asc") = LoweredOrder(aVal, bVal)
                 /\ CompareFn(data[i], data[j], key, "desc") = LoweredOrder(bVal, aVal)

\* a table sorted by a column that holds a string, a boolean and a number
C16_Witness ==
    /\ lastEvent = [kind |-> "click", col |-> 2]
    /\ sortKey[2] = "stock"
    /\ {"string", "boolean", "number"} \subseteq {Get(data[i], "stock").t : i \in 1..Len(data)}
    /\ Len(filteredData[2]) = Len(data)

(***************************************************************************)
(* C17: a record with a field that is a nested object whose content (its   *)
(* field names and values) contains the search term, case ignored, is      *)
(* among the displayed rows.                                               *)
(***************************************************************************)
C17_NestedSearch ==
    \A t \in Tables : \A i \in 1..Len(data) :
        (/\ searchTerm[t] # <<>>
         /\ \E f \in DOMAIN data[i] :
               /\ data[i][f].t = "object"
               /\ Includes(ToLowerCase(data[i][f].s), ToLowerCase(searchTerm[t])))
            => Shown(t, data[i])

(***************************************************************************)
(* C18: in every state the displayed rows of a table are the result of     *)
(* filtering and then sorting the current data under the table's current   *)
(* search term, sort key and sort direction.                               *)
(***************************************************************************)
C18_PureOfState ==
    \A t \in Tables :
        filteredData[t] =
            UseMemo(data, columns[t], searchTerm[t], sortKey[t], sortDirection[t],
                    sortImpl).result

\* new data has arrived at a table that is searched and sorted descending
C18_Witness ==
    /\ lastEvent.kind = "data"
    /\ searchTerm[2] = <<"T", "O">>
    /\ sortKey[2] = "ingredient" /\ sortDirection[2] = "desc"
    /\ Len(filteredData[2]) = 2
    /\ Len(data) > 2

(***************************************************************************)
(* C19: whenever the searchable prop of a table is false, every record of  *)
(* the data is among its displayed rows.                                   *)
(***************************************************************************)
C19_NotSearchable ==
    \A t \in Tables :
        ~searchable[t] => \A i \in 1..Len(data) : Shown(t, data[i])

(***************************************************************************)
(* C20: the store starts with the sidebar open and the chat closed;        *)
(* toggleSidebar and setSidebarOpen leave chatOpen as it is, toggleChat    *)
(* and setChatOpen leave sidebarOpen as it is, a toggle negates its flag,  *)
(* a set stores the value it was called with (false, at every call), and   *)
(* a gesture on a table changes neither flag.                              *)
(***************************************************************************)
C20_UIStore ==
    /\ sidebarOpen = TRUE /\ chatOpen = FALSE
    /\ [][/\ lastEvent'.kind \in {"toggleSidebar", "setSidebarOpen"} => chatOpen' = chatOpen
          /\ lastEvent'.kind \in {"toggleChat", "setChatOpen"} => sidebarOpen' = sidebarOpen
          /\ lastEvent'.kind = "toggleSidebar" => sidebarOpen' = ~sidebarOpen
          /\ lastEvent'.kind = "toggleChat" => chatOpen' = ~chatOpen
          /\ lastEvent'.kind = "setSidebarOpen" => sidebarOpen' = FALSE
          /\ lastEvent'.kind = "setChatOpen" => chatOpen' = FALSE
          /\ lastEvent'.kind \in {"search", "click"}
                => sidebarOpen' = sidebarOpen /\ chatOpen' = chatOpen]_vars

\* the chat button has just closed an open chat panel, the sidebar is closed
C20_Witness ==
    /\ lastEvent.kind = "toggleChat"
    /\ chatOpen = FALSE
    /\ sidebarOpen = FALSE

(***************************************************************************)
(* DataUpload (components/DataUpload.tsx)                                  *)
(***************************************************************************)
\* the File objects a user hands over, by file dialog or by drop
MaxPicks == 3

MaxSize == 50 * 1024 * 1024

FileNames ==
    { <<"a", ".", "c", "s", "v">>, <<"a", ".", "C", "S", "V">>,
      <<"b", ".", "x", "l", "s", "x">>, <<"a", ".", "t", "x", "t">>,
      <<"c", "s", "v">> }

File(name, size, id) == [name |-> name, size |-> size, id |-> id]

\* the files that can come next; every one is a new File object
NewFiles ==
    { File(name, 1024, picked + 1) : name \in FileNames }
    \cup { File(<<"a", ".", "c", "s", "v">>, MaxSize + 1, picked + 1) }

\* name.split('.').pop(): the characters after the last '.', the whole name
\* when it has none
RECURSIVE SplitPop(_)
SplitPop(name) ==
    IF Len(name) = 0 \/ name[Len(name)] = "." THEN <<>>
    ELSE SplitPop(SubSeq(name, 1, Len(name) - 1)) \o << name[Len(name)] >>

ValidTypes == << <<".", "x", "l", "s", "x">>, <<".", "c", "s", "v">> >>

InvalidTypeMessage == "Invalid file type. Only .xlsx, .csv files are allowed."

TooLargeMessage == "File too large. Maximum size is 50MB."

\* lines 22-38
ValidateFile(file) ==
    LET fileExt == <<".">> \o ToLowerCase(SplitPop(file.name))
    IN  IF ~(\E i \in 1..Len(ValidTypes) : ValidTypes[i] = fileExt)
        THEN InvalidTypeMessage
        ELSE IF file.size > MaxSize THEN TooLargeMessage
        ELSE NoString

\* the component's state as one record
UploadState ==
    [uploading |-> uploading, uploadResult |-> uploadResult, error |-> error,
     selectedFile |-> selectedFile, isDragActive |-> isDragActive,
     onErrorArg |-> NoString]

\* if (onError) onError(msg)
CallOnError(s, msg) == IF onErrorGiven THEN [s EXCEPT !.onErrorArg = msg] ELSE s

\* lines 40-52
HandleFileSelect(s, file) ==
    LET validationError == ValidateFile(file)
    IN  IF validationError # NoString
        THEN CallOnError([s EXCEPT !.error = validationError,
                                   !.selectedFile = NoFile], validationError)
        ELSE [s EXCEPT !.selectedFile = file, !.error = NoString,
                       !.uploadResult = NoResult]

\* variant: the drop handler does not look at uploading
HandleDropWhileUploading(s, file) ==
    HandleFileSelect([s EXCEPT !.isDragActive = FALSE], file)

\* lines 73-84
HandleDrop(s, file) ==
    IF s.uploading
    THEN [s EXCEPT !.isDragActive = FALSE]
    ELSE HandleFileSelect([s EXCEPT !.isDragActive = FALSE], file)

\* lines 90-95, up to the first await
HandleUploadStart(s) ==
    IF s.selectedFile = NoFile THEN s
    ELSE [s EXCEPT !.uploading = TRUE, !.error = NoString, !.uploadResult = NoResult]

\* lines 99-104: the upload request has answered
HandleUploadResult(s, result) == [s EXCEPT !.uploadResult = result]

\* line 119
ErrorMsg(err) ==
    IF err.detail # "" THEN err.detail
    ELSE IF err.message # "" THEN err.message
    ELSE "Upload failed"

\* lines 118-124: catch, then finally
HandleUploadCatch(s, err) ==
    CallOnError([s EXCEPT !.error = ErrorMsg(err), !.uploading = FALSE], ErrorMsg(err))

\* lines 109-117 and 122-124: after the reload, then finally
HandleUploadDone(s) == [s EXCEPT !.uploading = FALSE]

\* lines 114-117: the callback of the timer
ResetTimeout(s) == [s EXCEPT !.selectedFile = NoFile, !.uploadResult = NoResult]

\* lines 127-131, and the same three calls in lines 263-267
HandleRemoveFile(s) ==
    [s EXCEPT !.selectedFile = NoFile, !.error = NoString, !.uploadResult = NoResult]

\* the errors a request can be rejected with: err.response.data.detail and
\* err.message, '' when missing
UploadErrors ==
    { [detail |-> "Invalid file format", message |-> "Request failed with status code 400"],
      [detail |-> "", message |-> "Network Error"],
      [detail |-> "", message |-> ""] }

\* what is rendered: lines 149, 184, 223
DropzoneShown == selectedFile = NoFile /\ uploadResult = NoResult

FilePanelShown == selectedFile # NoFile /\ uploadResult = NoResult

ResultPanelShown == uploadResult # NoResult

\* one step of the component: the new state, the waiting handleUpload calls,
\* the timers, and the File handed over
UploadStep(kind, s, attempts, timers, file) ==
    /\ uploading' = s.uploading
    /\ uploadResult' = s.uploadResult
    /\ error' = s.error
    /\ selectedFile' = s.selectedFile
    /\ isDragActive' = s.isDragActive
    /\ onErrorArg' = s.onErrorArg
    /\ uploadAttempts' = attempts
    /\ resetTimers' = timers
    /\ offered' = file
    /\ picked' = IF file = NoFile THEN picked ELSE picked + 1
    /\ lastEvent' = [kind |-> kind, col |-> 0]
    /\ UNCHANGED <<tableVars, sidebarOpen, chatOpen, onErrorGiven,
                   chatVars, riskVars, forecastVars>>

DragOver ==
    /\ DropzoneShown
    /\ UploadStep("dragOver", [UploadState EXCEPT !.isDragActive = TRUE],
                  uploadAttempts, resetTimers, NoFile)

DragLeave ==
    /\ DropzoneShown
    /\ UploadStep("dragLeave", [UploadState EXCEPT !.isDragActive = FALSE],
                  uploadAttempts, resetTimers, NoFile)

Drop ==
    /\ DropzoneShown
    /\ picked < MaxPicks
    /\ \E file \in NewFiles :
          UploadStep("drop", HandleDrop(UploadState, file),
                     uploadAttempts, resetTimers, file)

\* the hidden file input, disabled while uploading (lines 166-173)
ChooseFile ==
    /\ DropzoneShown
    /\ ~uploading
    /\ picked < MaxPicks
    /\ \E file \in NewFiles :
          UploadStep("choose", HandleFileSelect(UploadState, file),
                     uploadAttempts, resetTimers, file)

\* the Remove button, disabled while uploading (lines 194-201)
ClickRemove ==
    /\ FilePanelShown
    /\ ~uploading
    /\ UploadStep("remove", HandleRemoveFile(UploadState),
                  uploadAttempts, resetTimers, NoFile)

\* the Upload button, disabled while uploading (lines 203-206)
ClickUpload ==
    /\ FilePanelShown
    /\ ~uploading
    /\ UploadStep("upload", HandleUploadStart(UploadState),
                  uploadAttempts \cup
                      {[file |-> selectedFile, awaiting |-> "uploadData"]},
                  resetTimers, NoFile)

UploadDataResolves ==
    \E a \in uploadAttempts :
        /\ a.awaiting = "uploadData"
        /\ UploadStep("uploaded", HandleUploadResult(UploadState, [file |-> a.file]),
                      (uploadAttempts \ {a}) \cup {[a EXCEPT !.awaiting = "reload"]},
                      resetTimers, NoFile)

UploadDataRejects ==
    \E a \in uploadAttempts : \E err \in UploadErrors :
        /\ a.awaiting = "uploadData"
        /\ UploadStep("uploadFailed", HandleUploadCatch(UploadState, err),
                      uploadAttempts \ {a}, resetTimers, NoFile)

ReloadResolves ==
    \E a \in uploadAttempts :
        /\ a.awaiting = "reload"
        /\ UploadStep("reloaded", HandleUploadDone(UploadState),
                      uploadAttempts \ {a},
                      Append(resetTimers, [file |-> a.file]), NoFile)

ReloadRejects ==
    \E a \in uploadAttempts : \E err \in UploadErrors :
        /\ a.awaiting = "reload"
        /\ UploadStep("reloadFailed", HandleUploadCatch(UploadState, err),
                      uploadAttempts \ {a}, resetTimers, NoFile)

\* lines 262-272
ClickUploadAnother ==
    /\ ResultPanelShown
    /\ UploadStep("another", HandleRemoveFile(UploadState),
                  uploadAttempts, resetTimers, NoFile)

ResetTimerFires ==
    /\ Len(resetTimers) > 0
    /\ UploadStep("resetTimer", ResetTimeout(UploadState),
                  uploadAttempts, Tail(resetTimers), NoFile)

\* the page around the card, with its tables empty
ShellMount ==
    /\ Mount(<<>>, [t \in Tables |-> Columns(t)], [t \in Tables |-> TRUE])
    /\ sortImpl = "V8"

UploadInit ==
    /\ ShellMount
    /\ \E given \in BOOLEAN : UploadMount(given)
    /\ ChatMount /\ RiskMount /\ ForecastMount

UploadNext ==
    \/ DragOver \/ DragLeave \/ Drop \/ ChooseFile
    \/ ClickRemove \/ ClickUpload \/ ClickUploadAnother
    \/ UploadDataResolves \/ UploadDataRejects
    \/ ReloadResolves \/ ReloadRejects
    \/ ResetTimerFires

UploadSpec == UploadInit /\ [][UploadNext]_vars

(***************************************************************************)
(* Vocabulary of the properties on the upload card                         *)
(***************************************************************************)
\* name ends with ext, the case of letters ignored
EndsWith(name, ext) ==
    /\ Len(name) >= Len(ext)
    /\ ToLowerCase(SubSeq(name, Len(name) - Len(ext) + 1, Len(name))) = ext

CarriesExtension(name) ==
    EndsWith(name, <<".", "x", "l", "s", "x">>) \/ EndsWith(name, <<".", "c", "s", "v">>)

(***************************************************************************)
(* C21: a file handed over by the file dialog or by a drop (the card not   *)
(* uploading) becomes the selected file only if its name ends with .xlsx   *)
(* or .csv, the case of letters ignored; after any other file no file is   *)
(* selected, error is the invalid-type message and onError, when given,    *)
(* has been called with that message.                                      *)
(***************************************************************************)
C21_FileType ==
    [][(lastEvent'.kind \in {"drop", "choose"} /\ ~uploading)
         => IF CarriesExtension(offered'.name)
            THEN selectedFile' \in {offered', NoFile}
            ELSE /\ selectedFile' = NoFile
                 /\ error' = InvalidTypeMessage
                 /\ onErrorGiven => onErrorArg' = InvalidTypeMessage]_vars

(***************************************************************************)
(* C27: error and uploadResult are never both set.                         *)
(***************************************************************************)
C27_OutcomeExclusive == ~(error # NoString /\ uploadResult # NoResult)

(***************************************************************************)
(* C28: the reset timer of an upload clears the selected file only when it *)
(* is the file of that upload, and the upload result only when it is the   *)
(* result of that upload.                                                  *)
(***************************************************************************)
C28_DelayedReset ==
    [][lastEvent'.kind = "resetTimer"
         => /\ selectedFile # resetTimers[1].file => selectedFile' = selectedFile
            /\ uploadResult.file # resetTimers[1].file => uploadResult' = uploadResult]_vars

(***************************************************************************)
(* C29: at most one handleUpload call waits for a request and uploading is *)
(* true exactly while one does; handleUpload starts only when uploading is *)
(* false; a drop or a click on Remove made while uploading leaves the      *)
(* selected file as it is; the step that ends an attempt, with success or  *)
(* with failure, sets uploading to false.                                  *)
(***************************************************************************)
C29_SingleUpload ==
    /\ [](Cardinality(uploadAttempts) <= 1 /\ (uploading <=> uploadAttempts # {}))
    /\ [][/\ lastEvent'.kind = "upload" => ~uploading
          /\ (uploading /\ lastEvent'.kind \in {"drop", "remove"})
                => selectedFile' = selectedFile
          /\ lastEvent'.kind \in {"uploadFailed", "reloaded", "reloadFailed"}
                => ~uploading']_vars

\* a valid file was dropped on the card while an upload was waiting for the
\* reload request
C29_Witness ==
    /\ lastEvent.kind = "drop"
    /\ uploading
    /\ ValidateFile(offered) = NoString
    /\ selectedFile = NoFile
    /\ \E a \in uploadAttempts : a.awaiting = "reload"

(***************************************************************************)
(* ChatPanel (components/ChatPanel.tsx)                                    *)
(***************************************************************************)
\* the messages a list holds at most, and the clear requests without answer
MaxMessages == 4

MaxClears == 2

\* what the user types into the input
Texts == { <<>>, <<" ">>, <<"h", "i">> }

\* String.prototype.trim on the characters that occur
RECURSIVE TrimStart(_)
TrimStart(str) ==
    IF Len(str) > 0 /\ str[1] = " " THEN TrimStart(Tail(str)) ELSE str

RECURSIVE TrimEnd(_)
TrimEnd(str) ==
    IF Len(str) > 0 /\ str[Len(str)] = " "
    THEN TrimEnd(SubSeq(str, 1, Len(str) - 1)) ELSE str

Trim(str) == TrimEnd(TrimStart(str))

\* lines 125-132
QuickInsights ==
    << "What ingredient is used the most?",
       "Which dish brings in the most money?",
       "What is the current inventory status?",
       "Show me the cost analysis",
       "What dishes can I make with current inventory?",
       "What items need reordering?" >>

\* a message; content is the sequence of the pieces it is put together from
ChatMessage(role, content, chart) ==
    [role |-> role, content |-> content, chart_info |-> chart]

\* response.data of /api/chat
ChatResponses ==
    { [response |-> "Tofu is used the most.", chart_info |-> NoString],
      [response |-> "Here is the chart.", chart_info |-> "bar"] }

\* error.response.data.detail and error.message, '' when missing
ChatErrors ==
    { [detail |-> "Chat is not available", message |-> "Request failed with status code 500"],
      [detail |-> "", message |-> "Network Error"],
      [detail |-> "", message |-> ""] }

\* the component's state as one record; mutate is the sequence of queries
\* the step has called chatMutation.mutate with
ChatState ==
    [messages |-> messages, input |-> input, isPending |-> isPending, mutate |-> <<>>]

\* variant: the answer is dropped while the panel is closed
OnSuccessWhileOpen(s, response) ==
    IF chatOpen
    THEN [s EXCEPT !.messages = Append(@, ChatMessage("assistant", <<response.response>>,
                                                      response.chart_info))]
    ELSE s

\* lines 34-41
OnSuccess(s, response) ==
    [s EXCEPT !.messages = Append(@, ChatMessage("assistant", <<response.response>>,
                                                 response.chart_info))]

\* line 45
ChatErrorText(err) ==
    IF err.detail # "" THEN err.detail
    ELSE IF err.message # "" THEN err.message
    ELSE "Failed to get response"

\* lines 42-48
OnError(s, err) ==
    [s EXCEPT !.messages = Append(@, ChatMessage("assistant",
                                                 <<"Error: ", ChatErrorText(err)>>,
                                                 NoString))]

\* variant: handleSend does not look at isPending
HandleSendWhilePending(s) ==
    IF Trim(s.input) = <<>> THEN s
    ELSE [s EXCEPT !.messages = Append(@, ChatMessage("user", s.input, NoString)),
                   !.input = <<>>,
                   !.isPending = TRUE,
                   !.mutate = Append(@, s.input)]

\* lines 58-68
HandleSend(s) ==
    IF Trim(s.input) = <<>> \/ s.isPending THEN s
    ELSE [s EXCEPT !.messages = Append(@, ChatMessage("user", s.input, NoString)),
                   !.input = <<>>,
                   !.isPending = TRUE,
                   !.mutate = Append(@, s.input)]

\* lines 136-143
QuickInsightClick(s, query) ==
    [s EXCEPT !.messages = Append(@, ChatMessage("user", <<query>>, NoString)),
              !.isPending = TRUE,
              !.mutate = Append(@, <<query>>)]

\* one step of the panel: the new state, the chat requests that have no
\* answer yet, and the number of clear requests that have none
ChatStep(kind, s, requests, clears) ==
    /\ messages' = s.messages
    /\ input' = s.input
    /\ isPending' = s.isPending
    /\ chatRequests' = requests \o s.mutate
    /\ clearRequests' = clears
    /\ Len(messages') + Len(chatRequests') <= MaxMessages
    /\ lastEvent' = [kind |-> kind, col |-> 0]
    /\ UNCHANGED <<tableVars, sidebarOpen, chatOpen, uploadVars, riskVars, forecastVars>>

\* the input's onChange, disabled while pending (lines 212-218)
TypeInput ==
    /\ chatOpen
    /\ ~isPending
    /\ \E text \in Texts :
          ChatStep("input", [ChatState EXCEPT !.input = text], chatRequests, clearRequests)

\* the Send button or the Enter key (lines 70-75, 219-222)
Send ==
    /\ chatOpen
    /\ ChatStep("send", HandleSend(ChatState), chatRequests, clearRequests)

\* a quick-insight button, rendered for an empty list and disabled while
\* pending (lines 106, 144)
ClickQuickInsight ==
    /\ chatOpen
    /\ Len(messages) = 0
    /\ ~isPending
    /\ \E idx \in 1..Len(QuickInsights) :
          ChatStep("quick", QuickInsightClick(ChatState, QuickInsights[idx]),
                   chatRequests, clearRequests)

\* the clear button, disabled for an empty list (lines 87-94)
ClickClear ==
    /\ chatOpen
    /\ Len(messages) # 0
    /\ clearRequests < MaxClears
    /\ ChatStep("clear", ChatState, chatRequests, clearRequests + 1)

\* a settled mutation ends the pending state when it is the one the panel
\* tracks, the one started last
Settled(s, i) ==
    [s EXCEPT !.isPending = IF i = Len(chatRequests) THEN FALSE ELSE @]

Without(seq, i) == SubSeq(seq, 1, i - 1) \o SubSeq(seq, i + 1, Len(seq))

ChatResolves ==
    \E i \in 1..Len(chatRequests) : \E response \in ChatResponses :
        ChatStep("chatResolved", OnSuccess(Settled(ChatState, i), response),
                 Without(chatRequests, i), clearRequests)

ChatRejects ==
    \E i \in 1..Len(chatRequests) : \E err \in ChatErrors :
        ChatStep("chatRejected", OnError(Settled(ChatState, i), err),
                 Without(chatRequests, i), clearRequests)

\* lines 51-56
ClearResolves ==
    /\ clearRequests > 0
    /\ ChatStep("clearResolved", [ChatState EXCEPT !.messages = <<>>],
                chatRequests, clearRequests - 1)

ClearRejects ==
    /\ clearRequests > 0
    /\ ChatStep("clearRejected", ChatState, chatRequests, clearRequests - 1)

ChatSettles == ChatResolves \/ ChatRejects

ChatInit ==
    /\ ShellMount
    /\ PagesMount

ChatNext ==
    \/ TypeInput \/ Send \/ ClickQuickInsight \/ ClickClear
    \/ ChatResolves \/ ChatRejects \/ ClearResolves \/ ClearRejects
    \/ ToggleChat \/ CloseChat

ChatSpec == ChatInit /\ [][ChatNext]_vars

\* every request is answered or fails in the end
ChatLiveSpec == ChatInit /\ [][ChatNext]_vars /\ WF_vars(ChatSettles)

(***************************************************************************)
(* C24: in every state the message list alternates user, assistant, user,  *)
(* ... and starts with a user message.                                     *)
(***************************************************************************)
C24_Alternates ==
    \A i \in 1..Len(messages) :
        messages[i].role = IF i % 2 = 1 THEN "user" ELSE "assistant"

(***************************************************************************)
(* C25: at most one chat request is without answer, and isPending is true  *)
(* exactly while one is; a call of handleSend or a click on a              *)
(* quick-insight button made while a request is pending appends no message *)
(* and starts no request.                                                  *)
(***************************************************************************)
C25_SingleRequest ==
    /\ [](Len(chatRequests) <= 1 /\ (isPending <=> Len(chatRequests) = 1))
    /\ [][(isPending /\ lastEvent'.kind \in {"send", "quick"})
            => messages' = messages /\ chatRequests' = chatRequests]_vars

\* handleSend ran with text in the input while the request of a
\* quick-insight click was pending
C25_Witness ==
    /\ lastEvent.kind = "send"
    /\ isPending
    /\ Trim(input) # <<>>
    /\ Len(messages) = 1
    /\ Len(chatRequests) = 1

Alert(ingredient, type, score, needs) ==
    [ingredient |-> ingredient, risk_type |-> type, risk_score |-> score,
     needs_reorder |-> needs]

RiskAlertsData ==
    << Alert("Tofu", "Low Stock", 40, TRUE), Alert("Rice", "Expiring", 90, TRUE),
       Alert("Soy", "Low Stock", 70, TRUE), Alert("Oat", "Expiring", 10, FALSE) >>

\* line 38
UniqueRiskTypes == {RiskAlertsData[i].risk_type : i \in 1..Len(RiskAlertsData)}

SeqIncludes(seq, x) == \E i \in 1..Len(seq) : seq[i] = x

RECURSIVE SeqFilterOut(_, _)
SeqFilterOut(seq, x) ==
    IF Len(seq) = 0 THEN <<>>
    ELSE (IF seq[1] = x THEN <<>> ELSE << seq[1] >>) \o SeqFilterOut(Tail(seq), x)

\* lines 102-106
ToggleRiskType(filter, type) ==
    IF SeqIncludes(filter, type) THEN SeqFilterOut(filter, type)
    ELSE Append(filter, type)

\* lines 40-42, as the set of the alerts left
FilteredAlerts(filter) ==
    { RiskAlertsData[i] : i \in
        { j \in 1..Len(RiskAlertsData) :
            Len(filter) = 0 \/ SeqIncludes(filter, RiskAlertsData[j].risk_type) } }

\* line 44 and lines 202-204: the alerts that need reorder, by falling risk
\* score, the first five of them
RECURSIVE ByScore(_)
ByScore(alerts) ==
    IF alerts = {} THEN <<>>
    ELSE LET top == CHOOSE a \in alerts : \A b \in alerts : b.risk_score <= a.risk_score
         IN  << top >> \o ByScore(alerts \ {top})

CriticalItems(filter) ==
    LET needing == ByScore({a \in FilteredAlerts(filter) : a.needs_reorder})
    IN  SubSeq(needing, 1, IF Len(needing) < 5 THEN Len(needing) ELSE 5)

RiskState ==
    [reorderedItems |-> reorderedItems, showSuccessMessage |-> showSuccessMessage,
     setTimeout |-> <<>>]

\* lines 46-60
HandleReorder(s, ingredient) ==
    [s EXCEPT !.reorderedItems = @ \cup {ingredient},
              !.showSuccessMessage = ingredient,
              !.setTimeout = Append(@, [ingredient |-> ingredient])]

\* lines 54-56: the callback of the timer
HideTimeout(s) == [s EXCEPT !.showSuccessMessage = NoString]

RiskStep(kind, filter, s, timers) ==
    /\ riskTypeFilter' = filter
    /\ reorderedItems' = s.reorderedItems
    /\ showSuccessMessage' = s.showSuccessMessage
    /\ hideTimers' = timers \o s.setTimeout
    /\ lastEvent' = [kind |-> kind, col |-> 0]
    /\ UNCHANGED <<tableVars, sidebarOpen, chatOpen, uploadVars, chatVars, forecastVars>>

ClickRiskType ==
    \E type \in UniqueRiskTypes :
        RiskStep("riskType", ToggleRiskType(riskTypeFilter, type), RiskState, hideTimers)

\* a reorder button of the critical items, disabled once reordered
\* (lines 224-228)
ClickReorder ==
    \E i \in 1..Len(CriticalItems(riskTypeFilter)) :
        LET item == CriticalItems(riskTypeFilter)[i]
        IN  /\ item.ingredient \notin reorderedItems
            /\ RiskStep("reorder", riskTypeFilter,
                        HandleReorder(RiskState, item.ingredient), hideTimers)

HideTimerFires ==
    /\ Len(hideTimers) > 0
    /\ RiskStep("hideTimer", riskTypeFilter, HideTimeout(RiskState), Tail(hideTimers))

RiskInit ==
    /\ ShellMount
    /\ PagesMount

RiskNext == ClickRiskType \/ ClickReorder \/ HideTimerFires

RiskSpec == RiskInit /\ [][RiskNext]_vars

(***************************************************************************)
(* C22: a click on a reorder button shows the message that names its       *)
(* ingredient; the message stays until the timer started by that click     *)
(* fires, which hides it; the timer of an earlier click leaves the message *)
(* of a later click as it is.                                              *)
(***************************************************************************)
C22_SuccessMessage ==
    [][/\ lastEvent'.kind = "reorder"
            => /\ showSuccessMessage' \in reorderedItems' \ reorderedItems
               /\ hideTimers'[Len(hideTimers')].ingredient = showSuccessMessage'
       /\ lastEvent'.kind = "hideTimer"
            => showSuccessMessage' =
                  IF showSuccessMessage = hideTimers[1].ingredient
                  THEN NoString ELSE showSuccessMessage
       /\ lastEvent'.kind = "riskType"
            => showSuccessMessage' = showSuccessMessage]_vars

(***************************************************************************)
(* Forecasting (pages/Forecasting.tsx): the five parameters and the        *)
(* forecast query. The query has its five parameters as key, is enabled    *)
(* while an ingredient is selected, is retried once and keeps its data     *)
(* fresh for five minutes (the defaults of main.tsx, lines 13-21). A key   *)
(* whose five minutes have passed is taken as gone from the cache.         *)
(***************************************************************************)
\* the keys that can have fresh data in the cache at one time
MaxCached == 1

DefaultDays == 30

MinDays == 7

MaxDays == 90

Retry == 1

\* ingredientsData.ingredients of the ingredients query
Ingredients == {"Tofu", "Rice"}

DayChoices == {MinDays, DefaultDays, MaxDays}

Methods == {"moving_average", "linear_trend"}

ForecastParams ==
    [selectedIngredient |-> selectedIngredient, forecastDays |-> forecastDays,
     method |-> method, includeSeasonality |-> includeSeasonality,
     includeHolidays |-> includeHolidays]

\* apiEndpoints.forecast: the params of the GET request
ForecastRequest(p) ==
    [ingredient |-> p.selectedIngredient, days_ahead |-> p.forecastDays,
     method |-> p.method, include_seasonality |-> p.includeSeasonality,
     include_holidays |-> p.includeHolidays]

\* line 218
Enabled(p) == p.selectedIngredient # ""

\* variant: the request carries the defaults of apiEndpoints.forecast in
\* place of the two adjustment options
QueryFnDefaults(p) ==
    IF p.selectedIngredient # ""
    THEN [ForecastRequest(p) EXCEPT !.include_seasonality = TRUE,
                                    !.include_holidays = TRUE]
    ELSE NoRequest

\* lines 212-217
QueryFn(p) ==
    IF p.selectedIngredient # "" THEN ForecastRequest(p) ELSE NoRequest

\* useQuery after a render with parameters p: an enabled query without
\* fresh data in the cache is fetched
Fetches(p) == Enabled(p) /\ ForecastRequest(p) \notin forecastCache

\* line 221: the page shows the spinner alone while the query is loading
ControlsShown == forecastFetch = NoFetch

\* a parameter is set: the render with the new parameters
SetParams(kind, p) ==
    /\ ControlsShown
    /\ p # ForecastParams
    /\ Fetches(p) => Cardinality(forecastCache) < MaxCached
    /\ selectedIngredient' = p.selectedIngredient
    /\ forecastDays' = p.forecastDays
    /\ method' = p.method
    /\ includeSeasonality' = p.includeSeasonality
    /\ includeHolidays' = p.includeHolidays
    /\ forecastRequest' = IF Fetches(p) THEN QueryFn(p) ELSE NoRequest
    /\ forecastFetch' = IF Fetches(p)
                        THEN [key |-> ForecastRequest(p), failureCount |-> 0]
                        ELSE NoFetch
    /\ UNCHANGED forecastCache
    /\ lastEvent' = [kind |-> kind, col |-> 0]
    /\ UNCHANGED <<tableVars, sidebarOpen, chatOpen, uploadVars, chatVars, riskVars>>

\* lines 241-252
SelectIngredient ==
    \E ingredient \in Ingredients \cup {""} :
        SetParams("ingredient", [ForecastParams EXCEPT !.selectedIngredient = ingredient])

\* lines 258-264
SlideDays ==
    \E days \in DayChoices :
        SetParams("days", [ForecastParams EXCEPT !.forecastDays = days])

\* line 268
SelectMethod ==
    \E m \in Methods : SetParams("method", [ForecastParams EXCEPT !.method = m])

\* lines 275-279
CheckSeasonality ==
    SetParams("seasonality", [ForecastParams EXCEPT !.includeSeasonality = ~@])

\* lines 283-287
CheckHolidays ==
    SetParams("holidays", [ForecastParams EXCEPT !.includeHolidays = ~@])

ForecastStep(kind, fetch, cache, request) ==
    /\ forecastFetch' = fetch
    /\ forecastCache' = cache
    /\ forecastRequest' = request
    /\ lastEvent' = [kind |-> kind, col |-> 0]
    /\ UNCHANGED <<selectedIngredient, forecastDays, method, includeSeasonality,
                   includeHolidays>>
    /\ UNCHANGED <<tableVars, sidebarOpen, chatOpen, uploadVars, chatVars, riskVars>>

ForecastResolves ==
    /\ forecastFetch # NoFetch
    /\ ForecastStep("forecastResolved", NoFetch,
                    forecastCache \cup {forecastFetch.key}, NoRequest)

\* a failed request is sent again up to Retry times, by the same query
\* function
ForecastRejects ==
    /\ forecastFetch # NoFetch
    /\ IF forecastFetch.failureCount < Retry
       THEN ForecastStep("forecastRetried",
                         [forecastFetch EXCEPT !.failureCount = @ + 1],
                         forecastCache, QueryFn(ForecastParams))
       ELSE ForecastStep("forecastFailed", NoFetch, forecastCache, NoRequest)

\* the five minutes of a key have passed
ForecastExpires ==
    /\ forecastFetch = NoFetch
    /\ \E key \in forecastCache :
          ForecastStep("forecastExpired", NoFetch, forecastCache \ {key}, NoRequest)

ForecastInit ==
    /\ ShellMount
    /\ PagesMount

ForecastNext ==
    \/ SelectIngredient \/ SlideDays \/ SelectMethod
    \/ CheckSeasonality \/ CheckHolidays
    \/ ForecastResolves \/ ForecastRejects \/ ForecastExpires

ForecastSpec == ForecastInit /\ [][ForecastNext]_vars

(***************************************************************************)
(* Vocabulary of the properties on the forecast query                      *)
(***************************************************************************)
\* the request that carries the current values of the five parameters
CurrentRequest == ForecastRequest(ForecastParams)

OptionKinds == {"days", "method", "seasonality", "holidays"}

====
